---- MODULE Spec2Model ----
(***************************************************************************)
(* Left-leaning red-black tree of src/redblacktrees.py.                    *)
(*                                                                         *)
(* Python objects are modelled as a heap: a function from object           *)
(* identities to node records.  The tree object the caller holds is the    *)
(* identity Self; None is the identity 0.  Every method is translated      *)
(* statement by statement over that heap, so that two names for the same   *)
(* object (self.left is self) behave as they do in Python.                 *)
(***************************************************************************)
EXTENDS Integers, FiniteSets, Sequences, TLC

\* ---------------------------------------------------------------- bounds
MaxVal == 4
MaxOps == 6
RecursionLimit == 12

Values == 1..MaxVal
Ids == 1..(MaxVal + 1)
None == 0
Self == 1
\* The depth left to a call depends on the caller's stack; what a
\* RecursionError leaves behind depends on the parity of that depth, so two
\* consecutive limits are explored.
Limits == {RecursionLimit, RecursionLimit + 1}

\* heap         the objects reachable from the caller's tree object
\* ref          the values inserted and not deleted since (reference set)
\* pre          the heap before the last call
\* last         the last call: operation, argument, result or exception
\* insertsOnly  no delete has been called yet
\* ops          number of insert/delete calls so far
VARIABLES heap, ref, pre, last, insertsOnly, ops
vars == <<heap, ref, pre, last, insertsOnly, ops>>

\* ------------------------------------------------------------ node model
NewNode(v, c) == [value |-> v, colour |-> c, left |-> None, right |-> None]

is_red(h, n) == n # None /\ h[n].colour = "Red"

Toggle(c) == IF c = "Black" THEN "Red" ELSE "Black"

\* one field assignment  n.field = v
SetValue(h, n, v) == [h EXCEPT ![n].value = v]
SetColour(h, n, c) == [h EXCEPT ![n].colour = c]
SetLeft(h, n, m) == [h EXCEPT ![n].left = m]
SetRight(h, n, m) == [h EXCEPT ![n].right = m]

\* the outcome of a call: the heap it leaves, and the object it returns or
\* the exception it raises
Ret(h, r) == [h |-> h, r |-> r, err |-> "none"]
Raise(h, e) == [h |-> h, r |-> None, err |-> e]

\* identity of the object a constructor call returns: one not in use
\* (insert is taken only while an identity is left)
Fresh(h) == CHOOSE n \in Ids \ DOMAIN h : \A m \in Ids \ DOMAIN h : n <= m

Alloc(h, x) == h @@ (Fresh(h) :> NewNode(x, "Red"))

\* ------------------------------------------------------------ primitives
\* x.colour = self.colour; self.colour = Red; return x
Recolour(h, s, x) == Ret(SetColour(SetColour(h, x, h[s].colour), s, "Red"), x)

rotate_left(h, s) ==
  IF h[s].right = None THEN Raise(h, "AssertionError")
  ELSE Recolour(SetLeft(SetRight(h, s, h[h[s].right].left), h[s].right, s),
                s, h[s].right)

rotate_right(h, s) ==
  IF h[s].left = None THEN Raise(h, "AssertionError")
  ELSE Recolour(SetRight(SetLeft(h, s, h[h[s].left].right), h[s].left, s),
                s, h[s].left)

FlipLeft(h, s) ==
  IF h[s].left # None
  THEN SetColour(h, h[s].left, Toggle(h[h[s].left].colour)) ELSE h

FlipRight(h, s) ==
  IF h[s].right # None
  THEN SetColour(h, h[s].right, Toggle(h[h[s].right].colour)) ELSE h

flip_colours(h, s) ==
  FlipRight(FlipLeft(SetColour(h, s, Toggle(h[s].colour)), s), s)

\* self._flip_colours(); return self   on the outcome of a rotation
FlipAt(c) ==
  IF c.err # "none" THEN c ELSE Ret(flip_colours(c.h, c.r), c.r)

\* the three steps of _fix_up, each on the node the step before returned
fix_up_left(h, s) ==
  IF is_red(h, h[s].right) /\ ~is_red(h, h[s].left)
  THEN rotate_left(h, s) ELSE Ret(h, s)

fix_up_right(c) ==
  IF c.err # "none" THEN c
  ELSE IF /\ is_red(c.h, c.h[c.r].left)
          /\ c.h[c.r].left # None
          /\ is_red(c.h, c.h[c.h[c.r].left].left)
  THEN rotate_right(c.h, c.r) ELSE c

fix_up_flip(c) ==
  IF c.err # "none" THEN c
  ELSE IF is_red(c.h, c.h[c.r].left) /\ is_red(c.h, c.h[c.r].right)
  THEN FlipAt(c) ELSE c

\* d is the depth of the frame of the call, lim the interpreter's limit:
\* a call at a depth above lim raises RecursionError before it runs.
fix_up(h, s, d, lim) ==
  IF d + 1 > lim THEN Raise(h, "RecursionError")
  ELSE fix_up_flip(fix_up_right(fix_up_left(h, s)))

\* self.right = <c>; self = self._rotate_left(); self._flip_colours()
move_red_left_rotate(c, s) ==
  IF c.err # "none" THEN c
  ELSE FlipAt(rotate_left(SetRight(c.h, s, c.r), s))

move_red_left_flipped(h, s) ==
  IF h[s].right # None /\ is_red(h, h[h[s].right].left)
  THEN move_red_left_rotate(rotate_right(h, h[s].right), s)
  ELSE Ret(h, s)

move_red_left(h, s, d, lim) ==
  IF d + 1 > lim THEN Raise(h, "RecursionError")
  ELSE move_red_left_flipped(flip_colours(h, s), s)

move_red_right_flipped(h, s) ==
  IF h[s].left # None /\ is_red(h, h[h[s].left].left)
  THEN FlipAt(rotate_right(h, s))
  ELSE Ret(h, s)

move_red_right(h, s, d, lim) ==
  IF d + 1 > lim THEN Raise(h, "RecursionError")
  ELSE move_red_right_flipped(flip_colours(h, s), s)

\* the while loop of _min_node: it never ends when the left links of s
\* lead back to a node already visited
RECURSIVE MinWalk(_, _, _)
MinWalk(h, cur, seen) ==
  IF h[cur].left = None THEN cur
  ELSE IF h[cur].left \in seen THEN None
  ELSE MinWalk(h, h[cur].left, seen \cup {h[cur].left})

min_node(h, s) ==
  IF MinWalk(h, s, {s}) = None THEN Raise(h, "Hang")
  ELSE Ret(h, MinWalk(h, s, {s}))

\* ---------------------------------------------------- recursive rewrites
\* self.left = <c>; return self._fix_up()     (c the outcome of the call
\* on the child, in the frame of depth d)
attach_left(c, s, d, lim) ==
  IF c.err # "none" THEN c
  ELSE fix_up(SetLeft(c.h, s, c.r), s, d + 1, lim)

attach_right(c, s, d, lim) ==
  IF c.err # "none" THEN c
  ELSE fix_up(SetRight(c.h, s, c.r), s, d + 1, lim)

\* not red(left) and left is not None and not red(left.left)
LeftIsBlackPair(h, s) ==
  /\ ~is_red(h, h[s].left)
  /\ h[s].left # None
  /\ ~is_red(h, h[h[s].left].left)

\* not red(right) and right is not None and not red(right.left)
RightIsBlackPair(h, s) ==
  /\ ~is_red(h, h[s].right)
  /\ h[s].right # None
  /\ ~is_red(h, h[h[s].right].left)

RECURSIVE delete_min(_, _, _, _)
\* assert self.left is not None; self.left = self.left._delete_min(); ...
delete_min_descend(c, d, lim) ==
  IF c.err # "none" THEN c
  ELSE IF c.h[c.r].left = None THEN Raise(c.h, "AssertionError")
  ELSE attach_left(delete_min(c.h, c.h[c.r].left, d + 1, lim), c.r, d, lim)

delete_min(h, s, d, lim) ==
  IF d > lim THEN Raise(h, "RecursionError")
  ELSE IF h[s].left = None THEN Ret(h, None)
  ELSE IF d + 1 > lim THEN Raise(h, "RecursionError")
  ELSE delete_min_descend(IF LeftIsBlackPair(h, s)
                          THEN move_red_left(h, s, d + 1, lim)
                          ELSE Ret(h, s),
                          d, lim)

RECURSIVE insert_rec(_, _, _, _, _)
\* insert_rec with the second comparison written x >= value: an equal
\* value descends to the right and no duplicate is reported
insert_rec_geq(h, s, x, d, lim) ==
  IF d > lim THEN Raise(h, "RecursionError")
  ELSE IF x < h[s].value THEN
    IF h[s].left = None
    THEN IF d + 1 > lim THEN Raise(h, "RecursionError")
         ELSE fix_up(SetLeft(Alloc(h, x), s, Fresh(h)), s, d + 1, lim)
    ELSE attach_left(insert_rec(h, h[s].left, x, d + 1, lim), s, d, lim)
  ELSE
    IF h[s].right = None
    THEN IF d + 1 > lim THEN Raise(h, "RecursionError")
         ELSE fix_up(SetRight(Alloc(h, x), s, Fresh(h)), s, d + 1, lim)
    ELSE attach_right(insert_rec(h, h[s].right, x, d + 1, lim), s, d, lim)

insert_rec(h, s, x, d, lim) ==
  IF d > lim THEN Raise(h, "RecursionError")
  ELSE IF x < h[s].value THEN
    IF h[s].left = None
    THEN IF d + 1 > lim THEN Raise(h, "RecursionError")
         ELSE fix_up(SetLeft(Alloc(h, x), s, Fresh(h)), s, d + 1, lim)
    ELSE attach_left(insert_rec(h, h[s].left, x, d + 1, lim), s, d, lim)
  ELSE IF x > h[s].value THEN
    IF h[s].right = None
    THEN IF d + 1 > lim THEN Raise(h, "RecursionError")
         ELSE fix_up(SetRight(Alloc(h, x), s, Fresh(h)), s, d + 1, lim)
    ELSE attach_right(insert_rec(h, h[s].right, x, d + 1, lim), s, d, lim)
  ELSE Raise(h, "DuplicateKey")

RECURSIVE delete_rec(_, _, _, _, _)
\* assert self.left is not None; self.left = self.left._delete_rec(x); ...
delete_left(c, x, d, lim) ==
  IF c.err # "none" THEN c
  ELSE IF c.h[c.r].left = None THEN Raise(c.h, "AssertionError")
  ELSE attach_left(delete_rec(c.h, c.h[c.r].left, x, d + 1, lim), c.r, d, lim)

\* self.right = self.right._delete_min(); return self._fix_up()
splice_min(h, s, d, lim) ==
  attach_right(delete_min(h, h[s].right, d + 1, lim), s, d, lim)

\* succ = self.right._min_node(); self.value = succ.value; ...
splice(succ, s, d, lim) ==
  IF succ.err # "none" THEN succ
  ELSE splice_min(SetValue(succ.h, s, succ.h[succ.r].value), s, d, lim)

\* lines 152-159, on the node _move_red_right returned
delete_right(c, x, d, lim) ==
  IF c.err # "none" THEN c
  ELSE IF x = c.h[c.r].value
  THEN splice(min_node(c.h, c.h[c.r].right), c.r, d, lim)
  ELSE attach_right(delete_rec(c.h, c.h[c.r].right, x, d + 1, lim), c.r, d, lim)

\* lines 143-150, on the node the rotation of line 141 returned
delete_here(c, x, d, lim) ==
  IF c.err # "none" THEN c
  ELSE IF x = c.h[c.r].value /\ c.h[c.r].right = None THEN Ret(c.h, None)
  ELSE IF c.h[c.r].right = None THEN Ret(c.h, c.r)
  ELSE delete_right(IF RightIsBlackPair(c.h, c.r)
                    THEN move_red_right(c.h, c.r, d + 1, lim)
                    ELSE c,
                    x, d, lim)

delete_rec(h, s, x, d, lim) ==
  IF d > lim THEN Raise(h, "RecursionError")
  ELSE IF x < h[s].value THEN
    IF h[s].left = None THEN Ret(h, s)
    ELSE IF d + 1 > lim THEN Raise(h, "RecursionError")
    ELSE delete_left(IF LeftIsBlackPair(h, s)
                     THEN move_red_left(h, s, d + 1, lim)
                     ELSE Ret(h, s),
                     x, d, lim)
  ELSE IF d + 1 > lim THEN Raise(h, "RecursionError")
  ELSE delete_here(IF is_red(h, h[s].left) THEN rotate_right(h, s) ELSE Ret(h, s),
                   x, d, lim)

\* ------------------------------------------------------ public operations
\* self.value = new_root.value; self.colour = new_root.colour;
\* self.left = new_root.left; self.right = new_root.right;
\* self.colour = Black         -- one assignment after the other
CopyValue(h, nr) == SetValue(h, Self, h[nr].value)
CopyColour(h, nr) == SetColour(h, Self, h[nr].colour)
CopyLeft(h, nr) == SetLeft(h, Self, h[nr].left)
CopyRight(h, nr) == SetRight(h, Self, h[nr].right)

CopyRoot(h, nr) ==
  SetColour(CopyRight(CopyLeft(CopyColour(CopyValue(h, nr), nr), nr), nr),
            Self, "Black")

\* insert and delete run in the frame of depth 1 and call the recursive
\* rewrite at depth 2
insert_finish(c) ==
  IF c.err # "none" THEN c ELSE Ret(CopyRoot(c.h, c.r), Self)

insert(h, x, lim) == insert_finish(insert_rec(h, Self, x, 2, lim))

delete_finish(c) ==
  IF c.err # "none" THEN c
  ELSE IF c.r = None THEN Raise(c.h, "BecameEmpty")
  ELSE Ret(CopyRoot(c.h, c.r), Self)

\* delete without the check for the only node
delete_unguarded(h, x, lim) == delete_finish(delete_rec(h, Self, x, 2, lim))

delete(h, x, lim) ==
  IF h[Self].left = None /\ h[Self].right = None /\ h[Self].value = x
  THEN Raise(h, "OnlyNode")
  ELSE delete_finish(delete_rec(h, Self, x, 2, lim))

\* the while loop of contains: "true", "false", or "Hang" when the descent
\* comes back to a node it has already compared x with
RECURSIVE contains_loop(_, _, _, _)
contains_loop(h, cur, x, seen) ==
  IF cur = None THEN "false"
  ELSE IF cur \in seen THEN "Hang"
  ELSE IF x < h[cur].value THEN contains_loop(h, h[cur].left, x, seen \cup {cur})
  ELSE IF x > h[cur].value THEN contains_loop(h, h[cur].right, x, seen \cup {cur})
  ELSE "true"

contains(h, x) == contains_loop(h, Self, x, {})

\* ------------------------------------------------------------ validators
RECURSIVE go(_, _, _, _)
go(h, node, lo, hi) ==
  IF node = None THEN TRUE
  ELSE IF lo # None /\ ~(h[node].value > lo) THEN FALSE
  ELSE IF hi # None /\ ~(h[node].value < hi) THEN FALSE
  ELSE /\ go(h, h[node].left, lo, h[node].value)
       /\ go(h, h[node].right, h[node].value, hi)

is_bst(h) == go(h, Self, None, None)

RECURSIVE no_red_red(_, _)
no_red_red(h, node) ==
  IF node = None THEN TRUE
  ELSE IF /\ h[node].colour = "Red"
          /\ (is_red(h, h[node].left) \/ is_red(h, h[node].right))
  THEN FALSE
  ELSE no_red_red(h, h[node].left) /\ no_red_red(h, h[node].right)

\* None (0) is the failure sentinel; a black height is at least 1
black_height_join(lh, rh, colour) ==
  IF lh = None \/ rh = None \/ lh # rh THEN None
  ELSE lh + (IF colour = "Black" THEN 1 ELSE 0)

RECURSIVE black_height(_, _)
black_height(h, node) ==
  IF node = None THEN 1
  ELSE black_height_join(black_height(h, h[node].left),
                         black_height(h, h[node].right),
                         h[node].colour)

is_rbt(h) ==
  IF h[Self].colour # "Black" THEN FALSE
  ELSE IF ~is_bst(h) THEN FALSE
  ELSE no_red_red(h, Self) /\ black_height(h, Self) # None

\* ------------------------------------------------------ object lifetime
\* objects no longer reachable from the caller's tree object are reclaimed
Children(h, S) ==
  ({h[n].left : n \in S} \cup {h[n].right : n \in S}) \ {None}

RECURSIVE ReachFrom(_, _)
ReachFrom(h, S) ==
  IF Children(h, S) \subseteq S THEN S ELSE ReachFrom(h, S \cup Children(h, S))

Collect(h) == [n \in ReachFrom(h, {Self}) |-> h[n]]

\* ------------------------------------------------------------ the system
Init ==
  /\ \E v \in Values : heap = (Self :> NewNode(v, "Black"))
  /\ ref = {heap[Self].value}
  /\ pre = heap
  /\ last = [op |-> "new", x |-> heap[Self].value, res |-> "ok"]
  /\ insertsOnly = TRUE
  /\ ops = 0

Running == last.res # "Hang"

\* the state a mutating call leaves: c is its outcome, r the reference set
\* if it completes
Commit(c, op, x, r) ==
  /\ heap' = Collect(c.h)
  /\ ref' = IF c.err = "none" THEN r ELSE ref
  /\ last' = [op |-> op, x |-> x, res |-> IF c.err = "none" THEN "ok" ELSE c.err]
  /\ pre' = heap
  /\ ops' = ops + 1

Insert(x) ==
  /\ Running
  /\ ops < MaxOps
  /\ Ids \ DOMAIN heap # {}
  /\ \E lim \in Limits : Commit(insert(heap, x, lim), "insert", x, ref \cup {x})
  /\ UNCHANGED insertsOnly

Delete(x) ==
  /\ Running
  /\ ops < MaxOps
  /\ \E lim \in Limits : Commit(delete(heap, x, lim), "delete", x, ref \ {x})
  /\ insertsOnly' = FALSE

Contains(x) ==
  /\ Running
  /\ last' = [op |-> "contains", x |-> x, res |-> contains(heap, x)]
  /\ pre' = heap
  /\ UNCHANGED <<heap, ref, insertsOnly, ops>>

Next == \E x \in Values : Insert(x) \/ Delete(x) \/ Contains(x)

Spec == Init /\ [][Next]_vars

\* ======================================================== the properties
Mutators == {"insert", "delete"}

\* some node of the tree h holds the value x
Holds(h, x) == \E n \in DOMAIN h : h[n].value = x

\* no node is reached twice by following left/right links from Self
Links(h) == {<<n, "left", h[n].left>> : n \in DOMAIN h}
            \cup {<<n, "right", h[n].right>> : n \in DOMAIN h}

IsTree(h) ==
  /\ \A e \in Links(h) : e[3] # Self
  /\ \A e, f \in Links(h) : (e[3] # None /\ e[3] = f[3]) => e = f

\* a path of k nodes starts at node n
RECURSIVE HasPath(_, _, _)
HasPath(h, n, k) ==
  /\ n # None
  /\ \/ k = 1
     \/ HasPath(h, h[n].left, k - 1)
     \/ HasPath(h, h[n].right, k - 1)

\* same shape, values and colours below n1 in h1 and n2 in h2, to depth k
RECURSIVE SameTo(_, _, _, _, _)
SameTo(h1, n1, h2, n2, k) ==
  IF n1 = None \/ n2 = None THEN n1 = n2
  ELSE IF k = 0 THEN TRUE
  ELSE /\ h1[n1].value = h2[n2].value
       /\ h1[n1].colour = h2[n2].colour
       /\ SameTo(h1, h1[n1].left, h2, h2[n2].left, k - 1)
       /\ SameTo(h1, h1[n1].right, h2, h2[n2].right, k - 1)

SameTree(h1, h2) == SameTo(h1, Self, h2, Self, MaxVal + 2)

C1_IsRbtAfterEveryOperation ==
  (last.op \in Mutators \cup {"new"} /\ last.res = "ok") => is_rbt(heap)

\* C2: contains(x) returns true exactly for the values inserted and not
\* deleted since, for every x.
C2_ContainsAgreesWithRef ==
  (last.op \in Mutators /\ last.res = "ok")
    => \A x \in Values : (contains(heap, x) = "true") <=> (x \in ref)

\* C4: delete(x) on a tree whose only node is a childless root with value x
\* fails with the only-node error, and the root keeps its value, its colour
\* and its two absent children.
C4_DeleteOnlyNodeFails ==
  (/\ last.op = "delete"
   /\ DOMAIN pre = {Self}
   /\ pre[Self].left = None /\ pre[Self].right = None
   /\ pre[Self].value = last.x)
    => (last.res = "OnlyNode" /\ heap = pre)

C4_Witness ==
  /\ last.op = "delete"
  /\ last.res = "OnlyNode"
  /\ heap = (Self :> NewNode(last.x, "Black"))

\* C5: delete(x) of a value that is not in the tree (never inserted, held
\* by no node, and contains(x) returned false before the call) raises
\* nothing and leaves shape, values and colours as they were.
C5_DeleteAbsentUnchanged ==
  (/\ last.op = "delete"
   /\ last.x \notin ref
   /\ ~Holds(pre, last.x)
   /\ contains(pre, last.x) = "false")
    => (last.res = "ok" /\ SameTree(pre, heap))

\* C6: after every completed insert or delete the object the operation was
\* called on is the root of a tree: no node is reached twice from it.
C6_RootStaysATree ==
  (last.op \in Mutators /\ last.res = "ok") => IsTree(heap)

\* C7: every call of contains ends, with true or false, and changes no node.
C7_ContainsTerminates ==
  last.op = "contains" => (last.res \in {"true", "false"} /\ heap = pre)

\* C8: after n distinct values were inserted and none deleted, every path
\* from the root has at most 2*log2(n+1) nodes, i.e. 2^k <= (n+1)^2 for a
\* path of k nodes.
C8_HeightBound ==
  insertsOnly =>
    \A k \in 1..(2 * MaxVal) :
      HasPath(heap, Self, k) => 2^k <= (Cardinality(ref) + 1)^2

\* C9: after every completed insert or delete no node has a Red right
\* child and no Red node has a Red child.
C9_LeftLeaning ==
  (last.op \in Mutators /\ last.res = "ok")
    => \A n \in DOMAIN heap :
         /\ ~is_red(heap, heap[n].right)
         /\ heap[n].colour = "Red" => ~is_red(heap, heap[n].left)

\* C10: delete(x) on a tree of at least two nodes raises no error.
C10_DeleteRaisesNothing ==
  (last.op = "delete" /\ Cardinality(DOMAIN pre) >= 2) => last.res = "ok"

====
